---------------------------- MODULE Spec2Model ----------------------------
(***************************************************************************)
(* Model of the address-range grammar of beobot (src/src/addresses.rs).    *)
(*                                                                         *)
(* A text (&str) is a sequence of one-character strings.  Every nom        *)
(* combinator the source uses is an operator from the remaining input to   *)
(* a result record: Ok(rest, out) or Err (nom's Err::Error; the grammar    *)
(* has no cut, so no Err::Failure ever arises).                            *)
(*                                                                         *)
(* Three specifications:                                                   *)
(*   Spec     applies the token and list level parsers to every text made  *)
(*            of at most MaxPieces pieces, and address_number to every     *)
(*            rendered token "{v}{e}";                                     *)
(*   SpecRow  runs Addresses::parse (the many1 loop over                   *)
(*            address_number_pair) and the iteration of the result on      *)
(*            every line made of at most MaxFrags fragments;               *)
(*   SpecMap  applies Mapper::transoform (src/src/script_mapper.rs) to     *)
(*            every character of its alphabet and to short texts.          *)
(***************************************************************************)
EXTENDS Integers, Sequences, FiniteSets, TLC

VARIABLES
    input,    \* the text handed to the parser
    fn,       \* Spec: which parser was applied ("none" before the call)
    res,      \* Spec: what it returned
    pc,       \* SpecRow: position in Addresses::parse / the iteration
    rest,     \* SpecRow: many1's remaining input `i`
    acc,      \* SpecRow: many1's accumulator `acc`
    items,    \* SpecRow: Addresses.items
    yielded   \* SpecRow: the entries the iterator has returned so far

vars == <<input, fn, res, pc, rest, acc, items, yielded>>

----------------------------------------------------------------------------
(* Bounds of the model. *)

\* number of pieces an input text of Spec is made of
MaxPieces == 4
\* largest value rendered for the token round trip
MaxValue == 120
\* number of fragments a line of SpecRow is made of
MaxFrags == 4
\* number of characters of a sample text of SpecMap
MaxMapLen == 3

----------------------------------------------------------------------------
(* Characters. *)

\* char::is_ascii_digit, behind nom's digit1
Digits == {"0", "1", "2", "3", "4", "5", "6", "7", "8", "9"}

DigitSeq == <<"0", "1", "2", "3", "4", "5", "6", "7", "8", "9">>

UpperSeq == <<"A", "B", "C", "D", "E", "F", "G", "H", "I", "J", "K", "L", "M",
              "N", "O", "P", "Q", "R", "S", "T", "U", "V", "W", "X", "Y", "Z">>

LowerSeq == <<"a", "b", "c", "d", "e", "f", "g", "h", "i", "j", "k", "l", "m",
              "n", "o", "p", "q", "r", "s", "t", "u", "v", "w", "x", "y", "z">>

\* char::is_ascii_alphabetic, behind nom's alpha0
Alpha == {UpperSeq[k] : k \in 1..26} \cup {LowerSeq[k] : k \in 1..26}

\* the characters nom's multispace0 accepts
MultiSpace == {" ", "\t", "\r", "\n"}

\* the characters str::trim removes (White_Space; the ASCII part)
WhiteSpace == MultiSpace \cup {"\f"}

\* char::to_lowercase on the ASCII letters, as tag_no_case compares
ToLower(c) ==
    IF \E k \in 1..26 : UpperSeq[k] = c
    THEN LowerSeq[CHOOSE k \in 1..26 : UpperSeq[k] = c]
    ELSE c

DigitValue(c) == (CHOOSE k \in 1..10 : DigitSeq[k] = c) - 1

----------------------------------------------------------------------------
(* Texts. *)

Drop(s, n) == SubSeq(s, n + 1, Len(s))

Take(s, n) == SubSeq(s, 1, n)

\* length of the longest prefix of s whose characters are all in S
PrefixLen(s, S) ==
    CHOOSE k \in 0..Len(s) :
        /\ \A j \in 1..k : s[j] \in S
        /\ (k = Len(s) \/ s[k + 1] \notin S)

\* str::parse::<usize> on a run of digits
RECURSIVE ParseUsize(_)
ParseUsize(s) ==
    IF s = <<>> THEN 0
    ELSE 10 * ParseUsize(Take(s, Len(s) - 1)) + DigitValue(s[Len(s)])

\* the decimal rendering "{v}" of an unsigned integer
RECURSIVE Render(_)
Render(v) ==
    IF v < 10 THEN <<DigitSeq[v + 1]>>
    ELSE Append(Render(v \div 10), DigitSeq[(v % 10) + 1])

\* str::trim
TrimStart(s) == Drop(s, PrefixLen(s, WhiteSpace))

TrimEnd(s) ==
    Take(s, CHOOSE k \in 0..Len(s) :
                /\ \A j \in (k + 1)..Len(s) : s[j] \in WhiteSpace
                /\ (k = 0 \/ s[k] \notin WhiteSpace))

Trim(s) == TrimEnd(TrimStart(s))

----------------------------------------------------------------------------
(* Results and values. *)

Ok(r, o) == [ok |-> TRUE, rest |-> r, out |-> o]

Err == [ok |-> FALSE]

None == [some |-> FALSE, str |-> <<>>]

Some(x) == [some |-> TRUE, str |-> x]

\* BrojNumber::from((v, e))
BrojNumber(v, e) == [value |-> v, extension |-> e]

\* BrojRange::from((from, to))
BrojRange(f, t) == [from |-> f, to |-> t]

Bez == [tag |-> "Bez"]

Number(n) == [tag |-> "Number", num |-> n]

Range(r) == [tag |-> "Range", range |-> r]

\* AddressRecord::new
AddressRecord(street, numbers) == [street |-> street, numbers |-> numbers]

----------------------------------------------------------------------------
(* nom's leaf combinators. *)

tag(t, i) ==
    IF Len(i) >= Len(t) /\ Take(i, Len(t)) = t
    THEN Ok(Drop(i, Len(t)), t)
    ELSE Err

tag_no_case(t, i) ==
    IF Len(i) >= Len(t) /\ \A k \in 1..Len(t) : ToLower(i[k]) = ToLower(t[k])
    THEN Ok(Drop(i, Len(t)), Take(i, Len(t)))
    ELSE Err

digit1(i) ==
    LET n == PrefixLen(i, Digits)
    IN  IF n = 0 THEN Err ELSE Ok(Drop(i, n), Take(i, n))

alpha0(i) ==
    LET n == PrefixLen(i, Alpha)
    IN  Ok(Drop(i, n), Take(i, n))

multispace0(i) ==
    LET n == PrefixLen(i, MultiSpace)
    IN  Ok(Drop(i, n), Take(i, n))

\* take_until1(":"): the text before the first ':', at least one character
take_until1(c, i) ==
    IF \E k \in 1..Len(i) : i[k] = c
    THEN LET k == CHOOSE k \in 1..Len(i) :
                      i[k] = c /\ \A j \in 1..(k - 1) : i[j] # c
         IN  IF k = 1 THEN Err ELSE Ok(Drop(i, k - 1), Take(i, k - 1))
    ELSE Err

----------------------------------------------------------------------------
(* nom's sequencing and choice.  A parser applied to an input is a result;  *)
(* K is what the enclosing combinator does with a success.                  *)

\* on Ok go on with K, on Err give `otherwise`
Match(r, K(_), otherwise) == IF r.ok THEN K(r) ELSE otherwise

\* pair, separated_pair, delimited, map: the first error is the error
Then(r, K(_)) == IF r.ok THEN K(r) ELSE Err

\* alt, opt: the alternative is tried on the same input when r failed
OrElse(r, alternative) == IF r.ok THEN r ELSE alternative

----------------------------------------------------------------------------
(* The grammar (src/src/addresses.rs). *)

\* map_res(digit1, |s| s.parse::<usize>()).  The digit runs of the model are
\* far shorter than the 20 digits at which parse::<usize> overflows.
digit_parser(i) ==
    Then(digit1(i), LAMBDA d : Ok(d.rest, ParseUsize(d.out)))

\* faulty variant of ext_closure: the emptiness test is dropped
ext_closure_always_some(x) == Some(x)

\* |x: &str| if !x.is_empty() { Some(x) } else { None }
ext_closure(x) == IF x # <<>> THEN Some(x) ELSE None

\* faulty variant of opt_frac: the '/' is taken even when no digit follows
opt_frac_bare_slash(i) ==
    OrElse(Then(tag(<<"/">>, i), LAMBDA s :
                OrElse(digit1(s.rest), Ok(s.rest, <<>>))),
           Ok(i, <<>>))

\* opt(pair(tag("/"), digit1))
opt_frac(i) ==
    OrElse(Then(tag(<<"/">>, i), LAMBDA s : digit1(s.rest)), Ok(i, <<>>))

\* map(recognize(pair(alpha0, opt(pair(tag("/"), digit1)))), closure)
ext_parser(i) ==
    Then(alpha0(i), LAMBDA a :
    Then(opt_frac(a.rest), LAMBDA f :
    Ok(f.rest, ext_closure(Take(i, Len(i) - Len(f.rest))))))

\* map(pair(digit_parser, ext_parser), BrojNumber::from)
address_number(i) ==
    Then(digit_parser(i), LAMBDA d :
    Then(ext_parser(d.rest), LAMBDA e :
    Ok(e.rest, BrojNumber(d.out, e.out))))

\* faulty variant of address_number_range: whitespace is skipped on both
\* sides of the separator
address_number_range_spaced(i) ==
    Then(address_number(i), LAMBDA a :
    Then(multispace0(a.rest), LAMBDA w :
    Then(tag(<<"-">>, w.rest), LAMBDA s :
    Then(multispace0(s.rest), LAMBDA v :
    Then(address_number(v.rest), LAMBDA b :
    Ok(b.rest, BrojRange(a.out, b.out)))))))

\* map(separated_pair(address_number, tag("-"), address_number), BrojRange::from)
address_number_range(i) ==
    Then(address_number(i), LAMBDA a :
    Then(tag(<<"-">>, a.rest), LAMBDA s :
    Then(address_number(s.rest), LAMBDA b :
    Ok(b.rest, BrojRange(a.out, b.out)))))

\* faulty variant of bb_parser: the marker is matched in upper case only
bb_parser_upper_only(i) ==
    Then(tag(<<"B", "B">>, i), LAMBDA t : Ok(t.rest, Bez))

\* value(Broj::Bez, tag_no_case("bb"))
bb_parser(i) ==
    Then(tag_no_case(<<"b", "b">>, i), LAMBDA t : Ok(t.rest, Bez))

\* map(address_number, Broj::from)
number_parser(i) ==
    Then(address_number(i), LAMBDA n : Ok(n.rest, Number(n.out)))

\* map(address_number_range, Broj::from)
range_parser(i) ==
    Then(address_number_range(i), LAMBDA r : Ok(r.rest, Range(r.out)))

\* faulty variant of broj: the single number is tried before the range
broj_single_first(i) ==
    OrElse(bb_parser(i), OrElse(number_parser(i), range_parser(i)))

\* faulty variant of broj: no single number is tried after a failed range
broj_range_only(i) ==
    OrElse(bb_parser(i), range_parser(i))

\* alt((bb_parser, range_parser, number_parser))
broj(i) ==
    OrElse(bb_parser(i), OrElse(range_parser(i), number_parser(i)))

\* faulty variant of separated_list0_loop: whitespace after a separator is
\* skipped before the next element
RECURSIVE separated_list0_loop_spaced(_, _)
separated_list0_loop_spaced(i, out) ==
    Match(tag(<<",">>, i), LAMBDA s :
              IF Len(s.rest) = Len(i) THEN Err
              ELSE Match(broj(multispace0(s.rest).rest), LAMBDA o :
                             separated_list0_loop_spaced(o.rest, Append(out, o.out)),
                         Ok(i, out)),
          Ok(i, out))

\* the loop of separated_list0(tag(","), broj) after its first element: a
\* separator, then an element; either failing ends the list before the
\* separator
RECURSIVE separated_list0_loop(_, _)
separated_list0_loop(i, out) ==
    Match(tag(<<",">>, i), LAMBDA s :
              IF Len(s.rest) = Len(i) THEN Err
              ELSE Match(broj(s.rest), LAMBDA o :
                             separated_list0_loop(o.rest, Append(out, o.out)),
                         Ok(i, out)),
          Ok(i, out))

\* separated_list0(tag(","), broj): an empty list when the first broj fails
separated_list0(i) ==
    Match(broj(i), LAMBDA o : separated_list0_loop(o.rest, <<o.out>>),
          Ok(i, <<>>))

\* opt(tag(","))
opt_comma(i) == OrElse(tag(<<",">>, i), Ok(i, <<>>))

\* faulty variant of broj_list: no trailing comma is accepted
broj_list_no_trailing_comma(i) ==
    Then(multispace0(i), LAMBDA w :
    Then(separated_list0(w.rest), LAMBDA l :
    Then(multispace0(l.rest), LAMBDA v :
    Ok(v.rest, l.out))))

\* faulty variant of broj_list: no leading whitespace is skipped
broj_list_no_leading_space(i) ==
    Then(separated_list0(i), LAMBDA l :
    Then(opt_comma(l.rest), LAMBDA c :
    Then(multispace0(c.rest), LAMBDA v :
    Ok(v.rest, l.out))))

\* delimited(multispace0, map(pair(parser, opt(tag(","))), |(x, _)| x), multispace0)
broj_list(i) ==
    Then(multispace0(i), LAMBDA w :
    Then(separated_list0(w.rest), LAMBDA l :
    Then(opt_comma(l.rest), LAMBDA c :
    Then(multispace0(c.rest), LAMBDA v :
    Ok(v.rest, l.out)))))

\* faulty variant of address_number_pair: the street is not trimmed
address_number_pair_no_trim(i) ==
    Then(take_until1(":", i), LAMBDA a :
    Then(tag(<<":">>, a.rest), LAMBDA c :
    Then(broj_list(c.rest), LAMBDA b :
    Ok(b.rest, AddressRecord(a.out, b.out)))))

\* map(separated_pair(take_until1(":"), tag(":"), broj_list),
\*     |(a, b)| AddressRecord::new(a.trim(), b))
address_number_pair(i) ==
    Then(take_until1(":", i), LAMBDA a :
    Then(tag(<<":">>, a.rest), LAMBDA c :
    Then(broj_list(c.rest), LAMBDA b :
    Ok(b.rest, AddressRecord(Trim(a.out), b.out)))))

----------------------------------------------------------------------------
(* The transliteration (src/src/script_mapper.rs).  A character outside    *)
(* ASCII is written as its code point, "U+0409" for the Cyrillic letter    *)
(* LJE.                                                                    *)

\* CharOrString::Char and CharOrString::String
Char(c) == [tag |-> "Char", c |-> c]

String(s) == [tag |-> "String", s |-> s]

\* the smap! lines of Mapper::new in source order: the value and the two
\* keys it is inserted under
SMap ==
    <<
       <<Char("A"), "U+0410", "U+0430">>,
       <<Char("B"), "U+0411", "U+0431">>,
       <<Char("V"), "U+0412", "U+0432">>,
       <<Char("G"), "U+0413", "U+0433">>,
       <<Char("D"), "U+0414", "U+0434">>,
       <<Char("U+0110"), "U+0402", "U+0452">>,
       <<Char("E"), "U+0415", "U+0435">>,
       <<Char("U+017D"), "U+0416", "U+0436">>,
       <<Char("Z"), "U+0417", "U+0437">>,
       <<Char("I"), "U+0418", "U+0438">>,
       <<Char("J"), "U+0408", "U+0458">>,
       <<Char("K"), "U+041A", "U+043A">>,
       <<Char("L"), "U+041B", "U+043B">>,
       <<String(<<"L", "j">>), "U+0409", "U+0459">>,
       <<Char("M"), "U+041C", "U+043C">>,
       <<Char("N"), "U+041D", "U+043D">>,
       <<String(<<"N", "j">>), "U+040A", "U+045A">>,
       <<Char("O"), "U+041E", "U+043E">>,
       <<Char("P"), "U+041F", "U+043F">>,
       <<Char("R"), "U+0420", "U+0440">>,
       <<Char("S"), "U+0421", "U+0441">>,
       <<Char("T"), "U+0422", "U+0442">>,
       <<Char("U+0106"), "U+040B", "U+045B">>,
       <<Char("U"), "U+0423", "U+0443">>,
       <<Char("F"), "U+0424", "U+0444">>,
       <<Char("H"), "U+0425", "U+0445">>,
       <<Char("C"), "U+0426", "U+0446">>,
       <<Char("U+010C"), "U+0427", "U+0447">>,
       <<String(<<"D", "U+017E">>), "U+040F", "U+045F">>,
       <<Char("U+0160"), "U+0428", "U+0448">>
    >>

\* Mapper::new: the HashMap after the inserts (a later insert replaces an
\* earlier one under the same key)
map ==
    [c \in UNION {{SMap[k][2], SMap[k][3]} : k \in 1..Len(SMap)} |->
        LET last == CHOOSE k \in 1..Len(SMap) :
                        /\ c \in {SMap[k][2], SMap[k][3]}
                        /\ \A j \in (k + 1)..Len(SMap) :
                               c \notin {SMap[j][2], SMap[j][3]}
        IN  SMap[last][1]]

\* the part of Unicode's upper-case mapping outside ASCII that the texts
\* use: lower-case character, its upper-case characters
UpperCasing ==
    { <<"U+017E", <<"U+017D">>>>, <<"U+0111", <<"U+0110">>>>,
      <<"U+0107", <<"U+0106">>>>, <<"U+010D", <<"U+010C">>>>,
      <<"U+0161", <<"U+0160">>>>, <<"U+00DF", <<"S", "S">>>>,
      <<"U+044F", <<"U+042F">>>>, <<"U+0430", <<"U+0410">>>>,
      <<"U+0459", <<"U+0409">>>>, <<"U+045F", <<"U+040F">>>> }

\* char::to_uppercase: the characters of the upper-case form of c
to_uppercase(c) ==
    IF \E k \in 1..26 : LowerSeq[k] = c
    THEN <<UpperSeq[CHOOSE k \in 1..26 : LowerSeq[k] = c]>>
    ELSE IF \E p \in UpperCasing : p[1] = c
         THEN (CHOOSE p \in UpperCasing : p[1] = c)[2]
         ELSE <<c>>

\* Itertools::join(""): the parts one after the other
RECURSIVE join(_)
join(parts) == IF parts = <<>> THEN <<>> ELSE Head(parts) \o join(Tail(parts))

\* str::to_uppercase: every character's upper-case form
str_to_uppercase(s) == join([k \in 1..Len(s) |-> to_uppercase(s[k])])

\* faulty variant of transoform: a mapped string is joined as it is stored
transoform_stored_case(i) ==
    join([k \in 1..Len(i) |->
             IF i[k] \in DOMAIN map
             THEN IF map[i[k]].tag = "Char" THEN to_uppercase(map[i[k]].c)
                  ELSE map[i[k]].s
             ELSE to_uppercase(i[k])])

\* Mapper::transoform: input.chars().map(..).join("")
transoform(i) ==
    join([k \in 1..Len(i) |->
             IF i[k] \in DOMAIN map
             THEN IF map[i[k]].tag = "Char" THEN to_uppercase(map[i[k]].c)
                  ELSE str_to_uppercase(map[i[k]].s)
             ELSE to_uppercase(i[k])])

----------------------------------------------------------------------------
(* Inputs. *)

RECURSIVE Flatten(_)
Flatten(ps) == IF ps = <<>> THEN <<>> ELSE Head(ps) \o Flatten(Tail(ps))

SeqsUpTo(S, n) == UNION {[1..k -> S] : k \in 0..n}

\* the pieces the texts of Spec are made of
Pieces ==
    { <<"1">>, <<"2", "A">>, <<"B", "B">>, <<"b", "B">>,
      <<"-">>, <<",">>, <<"/">>, <<" ">>, <<"\t", "\n">> }

ListTexts == {Flatten(ps) : ps \in SeqsUpTo(Pieces, MaxPieces)}

\* the extensions of the extension grammar: letters, then '/' and digits
ExtLetters == { <<>>, <<"A">>, <<"F">>, <<"a", "Z">> }

ExtFracs == { <<>>, <<"/", "1">>, <<"/", "0", "7">> }

TokenTexts ==
    {Render(v) \o l \o f : v \in 0..MaxValue, l \in ExtLetters, f \in ExtFracs}

\* the two sides of a range, well formed or not
RangeEnds ==
    { <<"1", "2">>, <<"3", "A">>, <<"4", "/", "5">>, <<"X">>, <<>> }

\* what stands between the two sides
RangeSeps ==
    { <<"-">>, <<" ", "-", " ">>, <<" ", "-">>, <<"-", " ">>, <<",">>, <<>> }

RangeTexts == {a \o s \o b : a \in RangeEnds, b \in RangeEnds, s \in RangeSeps}

\* the BB marker in every letter case, and what may follow it
MarkerTexts ==
    { <<x, y>> \o t : x \in {"b", "B"}, y \in {"b", "B"},
                      t \in {<<>>, <<",">>, <<"b">>, <<"1">>, <<" ">>} }

\* the fragments the lines of SpecRow are made of
Frags ==
    { <<"A", ":">>, <<" ", "M", " ", "S", " ", ":", " ">>, <<":">>,
      <<"B", "B", ",">>, <<"1", "-", "2", "A">>, <<",">>, <<" ">>, <<"X">>,
      <<"7", "B", ":", "B", "B", ",">>, <<"C", ":", "3", "\n">> }

RowTexts == {Flatten(fs) : fs \in SeqsUpTo(Frags, MaxFrags)}

\* the characters of the texts of SpecMap: every key of the map, and
\* characters that are no key (Latin letters of either case, Cyrillic
\* letters that are not Serbian, a digit, punctuation, whitespace)
MapChars ==
    DOMAIN map \cup
    { "a", "Z", "s", "1", "-", " ", "\n", "U+017E", "U+0161", "U+0110",
      "U+00DF", "U+044F", "U+042F" }

\* the characters the longer texts are made of
MapSample == { "U+0459", "U+040F", "U+0430", "U+0416", "s", " ", "U+00DF" }

MapTexts == {<<c>> : c \in MapChars} \cup SeqsUpTo(MapSample, MaxMapLen)

----------------------------------------------------------------------------
(* Spec: the parsers applied to a text. *)

NoRes == [ok |-> FALSE]

Init ==
    /\ input \in ListTexts \cup TokenTexts \cup RangeTexts \cup MarkerTexts
    /\ fn = "none"
    /\ res = NoRes
    /\ pc = "idle"
    /\ rest = <<>>
    /\ acc = <<>>
    /\ items = <<>>
    /\ yielded = <<>>

CallAddressNumber ==
    /\ fn = "none"
    /\ fn' = "address_number"
    /\ res' = address_number(input)
    /\ UNCHANGED <<input, pc, rest, acc, items, yielded>>

CallAddressNumberRange ==
    /\ fn = "none"
    /\ fn' = "address_number_range"
    /\ res' = address_number_range(input)
    /\ UNCHANGED <<input, pc, rest, acc, items, yielded>>

CallBroj ==
    /\ fn = "none"
    /\ fn' = "broj"
    /\ res' = broj(input)
    /\ UNCHANGED <<input, pc, rest, acc, items, yielded>>

CallBrojList ==
    /\ fn = "none"
    /\ fn' = "broj_list"
    /\ res' = broj_list(input)
    /\ UNCHANGED <<input, pc, rest, acc, items, yielded>>

Next ==
    \/ CallAddressNumber
    \/ CallAddressNumberRange
    \/ CallBroj
    \/ CallBrojList

Spec == Init /\ [][Next]_vars

----------------------------------------------------------------------------
(* SpecRow: Addresses::parse on a line, then the iteration of the result. *)

InitRow ==
    /\ input \in RowTexts
    /\ fn = "none"
    /\ res = NoRes
    /\ pc = "start"
    /\ rest = input
    /\ acc = <<>>
    /\ items = <<>>
    /\ yielded = <<>>

\* faulty variant of Many1First: a failing first application gives an empty row
\* (many0 in place of many1)
Many1FirstLenient ==
    /\ pc = "start"
    /\ \E o \in {address_number_pair(rest)} :
           IF ~o.ok
           THEN /\ pc' = "parsed"
                /\ UNCHANGED <<rest, acc>>
           ELSE /\ pc' = "loop"
                /\ rest' = o.rest
                /\ acc' = <<o.out>>
    /\ UNCHANGED <<input, fn, res, items, yielded>>

\* many1: the first application; its failure is the failure of
\* addresses, which Addresses::parse returns as Err
Many1First ==
    /\ pc = "start"
    /\ \E o \in {address_number_pair(rest)} :
           IF ~o.ok
           THEN /\ pc' = "err"
                /\ UNCHANGED <<rest, acc>>
           ELSE /\ pc' = "loop"
                /\ rest' = o.rest
                /\ acc' = <<o.out>>
    /\ UNCHANGED <<input, fn, res, items, yielded>>

\* faulty variant of Many1Next: the new entry is put in front
Many1NextPrepend ==
    /\ pc = "loop"
    /\ \E o \in {address_number_pair(rest)} :
           /\ o.ok
           /\ pc' = "loop"
           /\ rest' = o.rest
           /\ acc' = <<o.out>> \o acc
    /\ UNCHANGED <<input, fn, res, items, yielded>>

\* faulty variant of Many1Next: the next application starts where the last
\* one started
Many1NextStale ==
    /\ pc = "loop"
    /\ \E o \in {address_number_pair(rest)} :
           /\ o.ok
           /\ pc' = "loop"
           /\ acc' = Append(acc, o.out)
    /\ UNCHANGED <<input, fn, res, rest, items, yielded>>

\* many1: a further application that succeeds; an application that
\* consumed nothing would end the loop with an error
Many1Next ==
    /\ pc = "loop"
    /\ \E o \in {address_number_pair(rest)} :
           /\ o.ok
           /\ IF Len(o.rest) = Len(rest)
              THEN /\ pc' = "err"
                   /\ UNCHANGED <<rest, acc>>
              ELSE /\ pc' = "loop"
                   /\ rest' = o.rest
                   /\ acc' = Append(acc, o.out)
    /\ UNCHANGED <<input, fn, res, items, yielded>>

\* faulty variant of Many1Stop: the failure of a later entry is returned
Many1StopPropagates ==
    /\ pc = "loop"
    /\ ~address_number_pair(rest).ok
    /\ pc' = "err"
    /\ UNCHANGED <<input, fn, res, rest, acc, items, yielded>>

\* many1: a further application that fails ends the loop with Ok((i, acc));
\* Addresses::parse drops i and keeps acc as its items
Many1Stop ==
    /\ pc = "loop"
    /\ ~address_number_pair(rest).ok
    /\ pc' = "parsed"
    /\ items' = acc
    /\ UNCHANGED <<input, fn, res, rest, acc, yielded>>

\* Addresses::into_iter
IntoIter ==
    /\ pc = "parsed"
    /\ pc' = "iter"
    /\ yielded' = <<>>
    /\ UNCHANGED <<input, fn, res, rest, acc, items>>

\* the iterator's next(): the entries front to back, then None
IterNext ==
    /\ pc = "iter"
    /\ IF Len(yielded) < Len(items)
       THEN /\ yielded' = Append(yielded, items[Len(yielded) + 1])
            /\ pc' = "iter"
       ELSE /\ pc' = "done"
            /\ UNCHANGED yielded
    /\ UNCHANGED <<input, fn, res, rest, acc, items>>

NextRow ==
    \/ Many1First
    \/ Many1Next
    \/ Many1Stop
    \/ IntoIter
    \/ IterNext

SpecRow == InitRow /\ [][NextRow]_vars

----------------------------------------------------------------------------
(* SpecMap: Mapper::new().transoform(input). *)

InitMap ==
    /\ input \in MapTexts
    /\ fn = "none"
    /\ res = <<>>
    /\ pc = "idle"
    /\ rest = <<>>
    /\ acc = <<>>
    /\ items = <<>>
    /\ yielded = <<>>

CallTransoform ==
    /\ fn = "none"
    /\ fn' = "transoform"
    /\ res' = transoform(input)
    /\ UNCHANGED <<input, pc, rest, acc, items, yielded>>

NextMap == CallTransoform

SpecMap == InitMap /\ [][NextMap]_vars

----------------------------------------------------------------------------
(* The grammar of the texts, stated on the characters and not by the        *)
(* parsers: what the properties below call a number-token, a Specification  *)
(* and a list.                                                              *)

AllIn(s, S) == \A k \in 1..Len(s) : s[k] \in S

\* one or more decimal digits
IsDigits(s) == s # <<>> /\ AllIn(s, Digits)

\* nothing, or '/' and one or more digits
IsFrac(s) == s = <<>> \/ (s[1] = "/" /\ IsDigits(Drop(s, 1)))

\* digits, letters, then the optional '/' and digits
IsTokenText(s) ==
    \E a \in 1..Len(s) : \E b \in a..Len(s) :
        /\ IsDigits(Take(s, a))
        /\ AllIn(SubSeq(s, a + 1, b), Alpha)
        /\ IsFrac(Drop(s, b))

\* token '-' token
IsRangeText(s) ==
    \E k \in 1..Len(s) :
        /\ s[k] = "-"
        /\ IsTokenText(Take(s, k - 1))
        /\ IsTokenText(Drop(s, k))

IsBBText(s) == Len(s) = 2 /\ AllIn(s, {"b", "B"})

IsSpecText(s) == IsBBText(s) \/ IsRangeText(s) \/ IsTokenText(s)

\* one or more Specifications separated by single commas
IsListText(s) ==
    /\ s # <<>>
    /\ \A a \in 1..(Len(s) + 1) :
           (a = 1 \/ s[a - 1] = ",") =>
               \E b \in a..Len(s) :
                   /\ (b = Len(s) \/ s[b + 1] = ",")
                   /\ IsSpecText(SubSeq(s, a, b))

Commas(s) == Cardinality({k \in 1..Len(s) : s[k] = ","})

\* a list with its optional single trailing comma
IsValidList(s) ==
    \/ IsListText(s)
    \/ (s # <<>> /\ s[Len(s)] = "," /\ IsListText(Take(s, Len(s) - 1)))

\* s is raw without the whitespace at its two ends
IsTrimOf(s, raw) ==
    /\ s = <<>> \/ (s[1] \notin WhiteSpace /\ s[Len(s)] \notin WhiteSpace)
    /\ \E a \in 0..Len(raw) :
           /\ a + Len(s) <= Len(raw)
           /\ SubSeq(raw, a + 1, a + Len(s)) = s
           /\ AllIn(Take(raw, a), WhiteSpace)
           /\ AllIn(Drop(raw, a + Len(s)), WhiteSpace)

\* the entries the Street-Entry Parser recognizes in a text, applied again
\* and again from where it stopped until it fails
RECURSIVE Recognized(_)
Recognized(t) ==
    Match(address_number_pair(t),
          LAMBDA o : <<o.out>> \o Recognized(o.rest),
          <<>>)

Finished == {"parsed", "iter", "done"}

\* what ends a well-formed entry: a trailing comma and/or whitespace
IsTerm(t) ==
    /\ t # <<>>
    /\ \E c \in 0..1 :
           /\ c = 1 => t[1] = ","
           /\ AllIn(Drop(t, c), MultiSpace)

\* e from its character c + 1 on is whitespace up to a, a list up to b and
\* the end of the entry from there
IsEntryTail(e, c, a, b) ==
    /\ AllIn(SubSeq(e, c + 1, a), MultiSpace)
    /\ IsListText(SubSeq(e, a + 1, b))
    /\ IsTerm(Drop(e, b))

\* a well-formed street entry: at least one character of street name, the
\* only ':', optional whitespace, a list, and the end of the entry
IsEntryText(e) ==
    \E c \in 2..Len(e) :
        /\ e[c] = ":"
        /\ \A j \in 1..Len(e) : e[j] = ":" => j = c
        /\ \E a \in c..Len(e) : \E b \in (a + 1)..(Len(e) - 1) :
               IsEntryTail(e, c, a, b)

\* the StreetEntry a well-formed entry stands for
EntryValue(e) ==
    LET c == CHOOSE c \in 2..Len(e) : e[c] = ":"
        a == CHOOSE a \in c..Len(e) :
                 \E b \in (a + 1)..(Len(e) - 1) : IsEntryTail(e, c, a, b)
        b == CHOOSE b \in (a + 1)..(Len(e) - 1) : IsEntryTail(e, c, a, b)
    IN  AddressRecord(Trim(Take(e, c - 1)), broj_list(SubSeq(e, a + 1, b)).out)

\* the text begins like a Specification: a digit or the BB marker
StartsLikeSpec(u) ==
    /\ u # <<>>
    /\ \/ u[1] \in Digits
       \/ (Len(u) >= 2 /\ u[1] \in {"b", "B"} /\ u[2] \in {"b", "B"})

\* the street name of the entry e is not whitespace alone
HasStreetName(e) ==
    \E j \in 1..Len(e) :
        /\ e[j] \notin WhiteSpace \cup {":"}
        /\ \A i \in 1..j : e[i] # ":"

\* an entry ending after n characters of t is kept apart from the next
\* one: it is the last, it ends in whitespace, or the next street name
\* does not begin like a Specification
KeptApart(t, n) ==
    \/ n = Len(t)
    \/ t[n] \in MultiSpace
    \/ ~StartsLikeSpec(Drop(t, n))

\* the rows t stands for when read as a concatenation of well-formed
\* entries that have a street name (no row when it is none); with `apart`,
\* of entries kept apart
RECURSIVE Rows(_, _)
Rows(t, apart) ==
    IF t = <<>> THEN {<<>>}
    ELSE UNION { {<<EntryValue(Take(t, n))>> \o d : d \in Rows(Drop(t, n), apart)} :
                 n \in {m \in 1..Len(t) : /\ t[m] \in MultiSpace \cup {","}
                                          /\ IsEntryText(Take(t, m))
                                          /\ HasStreetName(Take(t, m))
                                          /\ apart => KeptApart(t, m)} }

----------------------------------------------------------------------------
(* Properties. *)

\* C1: the List Parser (broj_list) fails on every input made only of
\* whitespace and commas, such as "," and "   ,   " (no Specification).
C1_ItemlessListFails ==
    (fn = "broj_list" /\ AllIn(input, MultiSpace \cup {","})) => ~res.ok

\* C2: every StreetEntry of a parsed row has at least one Specification in
\* its numbers (the Street-Entry Parser fails when none follows the colon).
C2_NumbersNonEmpty ==
    /\ \A k \in 1..Len(acc) : Len(acc[k].numbers) >= 1
    /\ \A k \in 1..Len(items) : Len(items[k].numbers) >= 1

\* C3: broj applied to "a-b", a and b number-tokens, returns the one
\* Range(a, b) with nothing left; never Single(a) with "-b" left over.
C3_RangeBeforeSingle ==
    fn = "broj" =>
        \A k \in 1..Len(input) :
            (/\ input[k] = "-"
             /\ IsTokenText(Take(input, k - 1))
             /\ IsTokenText(Drop(input, k)))
            => res = Ok(<<>>, Range(BrojRange(
                          address_number(Take(input, k - 1)).out,
                          address_number(Drop(input, k)).out)))

C3_Witness ==
    /\ fn = "broj"
    /\ IsRangeText(input)
    /\ res.ok
    /\ res.out.tag = "Range"
    /\ res.out.range.from.extension.some
    /\ res.rest = <<>>

\* C4: a line whose first street entry is well formed is reported as a
\* success whatever follows: the row holds exactly the entries recognized
\* before the fragment on which the Street-Entry Parser fails, in order,
\* and that fragment is dropped without an error.
C4_TailDiscarded ==
    /\ pc = "err" => ~address_number_pair(input).ok
    /\ pc \in Finished =>
           /\ items = Recognized(input)
           /\ Len(items) >= 1
           /\ ~address_number_pair(rest).ok

C4_Witness ==
    /\ pc = "parsed"
    /\ Len(items) = 2
    /\ \A k \in 1..2 : Len(items[k].numbers) >= 1
    /\ rest # <<>>
    /\ \E k \in 1..Len(rest) : rest[k] = ":"

\* C5: when the first application of the Street-Entry Parser fails (no ':'
\* in the line, or ':' as its first character) the parse fails and there
\* is no row; a row that was returned holds at least one StreetEntry.
C5_FirstFailureFails ==
    /\ (\/ ~address_number_pair(input).ok
        \/ \A k \in 1..Len(input) : input[k] # ":"
        \/ (input # <<>> /\ input[1] = ":"))
       => (pc \in {"start", "err"} /\ acc = <<>> /\ items = <<>>)
    /\ pc \in Finished => Len(items) >= 1

C5_Witness ==
    /\ pc = "err"
    /\ input # <<>>
    /\ input[1] = ":"
    /\ \E k \in 2..Len(input) : input[k] = ":"

\* C6: for a list text L (Specifications separated by commas) the List
\* Parser returns the same items for L and for L followed by one comma,
\* one item per Specification, and consumes the whole input both times.
C6_TrailingComma ==
    (fn = "broj_list" /\ IsListText(input)) =>
        /\ res.ok
        /\ res.rest = <<>>
        /\ Len(res.out) = Commas(input) + 1
        /\ broj_list(input \o <<",">>) = res

C6_Witness ==
    /\ fn = "broj_list"
    /\ IsListText(input)
    /\ Commas(input) = 1
    /\ res.ok
    /\ Len(res.out) = 2
    /\ res.out[1] = Bez
    /\ res.out[2].tag = "Number"

\* C7: the token round trip.  The Number-Token Parser applied to the
\* decimal rendering of v followed by an extension e (nothing, letters,
\* letters then '/' and digits, or '/' and digits) consumes the whole text
\* and returns value v and extension e, None exactly when e is empty.
C7_TokenRoundTrip ==
    fn = "address_number" =>
        \A v \in 0..MaxValue, l \in ExtLetters, f \in ExtFracs :
            input = Render(v) \o l \o f =>
                res = Ok(<<>>, BrojNumber(v, IF l \o f = <<>> THEN None
                                             ELSE Some(l \o f)))

C7_Witness ==
    /\ fn = "address_number"
    /\ input = <<"3", "6", "A", "/", "1">>
    /\ res.ok
    /\ res.out.value = 36
    /\ res.out.extension = Some(<<"A", "/", "1">>)

\* C8: each time an entry is recognized, its street is the text from where
\* the entry starts up to the first ':' without the whitespace at both
\* ends, its numbers are what the List Parser returns for the text right
\* after that ':', and the parser goes on where the List Parser stopped.
C8_StreetAndNumbers ==
    [][Len(acc') = Len(acc) + 1 =>
          \E k \in 1..Len(rest) :
              /\ rest[k] = ":"
              /\ \A j \in 1..(k - 1) : rest[j] # ":"
              /\ IsTrimOf(acc'[Len(acc')].street, Take(rest, k - 1))
              /\ broj_list(Drop(rest, k)).ok
              /\ acc'[Len(acc')].numbers = broj_list(Drop(rest, k)).out
              /\ rest' = broj_list(Drop(rest, k)).rest]_vars

C8_Witness ==
    /\ Len(acc) = 1
    /\ acc[1].street = <<"M", " ", "S">>
    /\ Len(acc[1].numbers) = 2
    /\ acc[1].numbers[1] = Bez
    /\ acc[1].numbers[2].tag = "Range"
    /\ rest = <<>>

\* C10: whitespace (spaces, tabs, newlines) before and after a valid list
\* is consumed, and the List Parser returns the items it returns for the
\* list alone.
C10_SurroundingWhitespace ==
    fn = "broj_list" =>
        \A a \in 0..Len(input) : \A b \in 0..(Len(input) - a) :
            (/\ AllIn(Take(input, a), MultiSpace)
             /\ AllIn(Drop(input, Len(input) - b), MultiSpace)
             /\ IsValidList(SubSeq(input, a + 1, Len(input) - b)))
            => /\ res.ok
               /\ res.rest = <<>>
               /\ Len(res.out) >= 1
               /\ res.out = broj_list(SubSeq(input, a + 1, Len(input) - b)).out
               /\ broj_list(SubSeq(input, a + 1, Len(input) - b)).rest = <<>>

C10_Witness ==
    /\ fn = "broj_list"
    /\ Len(input) >= 4
    /\ input[1] = "\t"
    /\ input[2] = "\n"
    /\ input[Len(input)] = " "
    /\ IsValidList(SubSeq(input, 3, Len(input) - 1))
    /\ res.ok
    /\ res.rest = <<>>
    /\ res.out = <<Bez>>

\* C9 as stated: a line that is the concatenation of k >= 1 well-formed
\* street entries (read in its favour: of entries that have a street
\* name), each ending in a trailing comma and/or whitespace, is
\* parsed into exactly these k entries in source order, and the iteration
\* of the result yields them in that order.
C9_ConcatenatedEntriesAsStated ==
    pc \in {"err", "parsed", "done"} =>
        \A d \in Rows(input, FALSE) :
            d # <<>> => /\ pc # "err"
                        /\ items = d
                        /\ pc = "done" => yielded = d

\* C9, amended: the same for entries whose street names are not whitespace
\* alone and that are kept apart, that is each entry but the last ends in
\* whitespace or is followed by a street name that does not begin with a
\* digit or the BB marker.
C9_ConcatenatedEntries ==
    /\ pc \in {"err", "parsed", "done"} =>
           \A d \in Rows(input, TRUE) :
               d # <<>> => /\ pc # "err"
                           /\ items = d
                           /\ pc = "done" => yielded = d
    /\ pc = "iter" => yielded = Take(items, Len(yielded))

C9_Witness ==
    /\ pc = "done"
    /\ Len(yielded) = 3
    /\ yielded \in Rows(input, TRUE)
    /\ yielded[1].street = <<"C">>
    /\ yielded[2].street = <<"7", "B">>
    /\ yielded[3].street = <<"A">>

\* C11: the Range Parser (address_number_range) succeeds exactly on the texts
\* that begin with a number-token, '-' and a number-token with no character
\* between them, and it consumes that range; it fails when whitespace
\* surrounds the separator, when the '-' is absent and when either side is
\* not a number-token.
C11_RangeUnbroken ==
    fn = "address_number_range" =>
        /\ res.ok <=> \E n \in 1..Len(input) : IsRangeText(Take(input, n))
        /\ res.ok => IsRangeText(Take(input, Len(input) - Len(res.rest)))

C11_Witness ==
    /\ fn = "address_number_range"
    /\ input = <<"1", "2", " ", "-", " ", "3", "A">>
    /\ ~res.ok

\* C12: the Specification Parser (broj) returns NoNumber (Broj::Bez) on a
\* text that begins with "BB", "bb", "Bb" or "bB", and it consumes just
\* those two characters.
C12_MarkerAnyCase ==
    (/\ fn = "broj"
     /\ Len(input) >= 2
     /\ input[1] \in {"b", "B"}
     /\ input[2] \in {"b", "B"}) =>
        res = Ok(Drop(input, 2), Bez)

C12_Witness ==
    /\ fn = "broj"
    /\ input = <<"b", "b", ",">>
    /\ res = Ok(<<",">>, Bez)

\* C13: in every StreetEntry of a successfully returned row the street (the
\* text before the colon, trimmed) is non-empty.
C13_StreetNonEmpty ==
    pc \in Finished => \A k \in 1..Len(items) : items[k].street # <<>>

\* the Serbian Cyrillic alphabet in its order: the capital letter, the small
\* letter and the upper-case Latin equivalent
Azbuka ==
    << <<"U+0410", "U+0430", <<"A">>>>,        <<"U+0411", "U+0431", <<"B">>>>,
       <<"U+0412", "U+0432", <<"V">>>>,        <<"U+0413", "U+0433", <<"G">>>>,
       <<"U+0414", "U+0434", <<"D">>>>,        <<"U+0402", "U+0452", <<"U+0110">>>>,
       <<"U+0415", "U+0435", <<"E">>>>,        <<"U+0416", "U+0436", <<"U+017D">>>>,
       <<"U+0417", "U+0437", <<"Z">>>>,        <<"U+0418", "U+0438", <<"I">>>>,
       <<"U+0408", "U+0458", <<"J">>>>,        <<"U+041A", "U+043A", <<"K">>>>,
       <<"U+041B", "U+043B", <<"L">>>>,        <<"U+0409", "U+0459", <<"L", "J">>>>,
       <<"U+041C", "U+043C", <<"M">>>>,        <<"U+041D", "U+043D", <<"N">>>>,
       <<"U+040A", "U+045A", <<"N", "J">>>>,   <<"U+041E", "U+043E", <<"O">>>>,
       <<"U+041F", "U+043F", <<"P">>>>,        <<"U+0420", "U+0440", <<"R">>>>,
       <<"U+0421", "U+0441", <<"S">>>>,        <<"U+0422", "U+0442", <<"T">>>>,
       <<"U+040B", "U+045B", <<"U+0106">>>>,   <<"U+0423", "U+0443", <<"U">>>>,
       <<"U+0424", "U+0444", <<"F">>>>,        <<"U+0425", "U+0445", <<"H">>>>,
       <<"U+0426", "U+0446", <<"C">>>>,        <<"U+0427", "U+0447", <<"U+010C">>>>,
       <<"U+040F", "U+045F", <<"D", "U+017D">>>>,
       <<"U+0428", "U+0448", <<"U+0160">>>> >>

\* what the character c stands for in the transliteration
Transliterated(c) ==
    IF \E k \in 1..Len(Azbuka) : c \in {Azbuka[k][1], Azbuka[k][2]}
    THEN Azbuka[CHOOSE k \in 1..Len(Azbuka) : c \in {Azbuka[k][1], Azbuka[k][2]}][3]
    ELSE to_uppercase(c)

\* C14: Mapper::transoform maps its input character by character, in order:
\* each of the 30 Serbian Cyrillic letters, capital or small, becomes its
\* upper-case Latin equivalent (LJ, NJ and DZ-with-caron for the three
\* digraph letters), every other character becomes its upper-case form, and
\* the empty text maps to the empty text.
C14_Transliteration ==
    fn = "transoform" =>
        /\ res = Flatten([k \in 1..Len(input) |-> Transliterated(input[k])])
        /\ input = <<>> => res = <<>>

C14_Witness ==
    /\ fn = "transoform"
    /\ input = <<"U+040F", "s", "U+0459">>
    /\ res = <<"D", "U+017D", "S", "L", "J">>

\* the length of the longest number-token the text begins with (0: none)
TokenLen(s) ==
    LET ns == {n \in 1..Len(s) : IsTokenText(Take(s, n))}
    IN  IF ns = {} THEN 0 ELSE CHOOSE n \in ns : \A m \in ns : m <= n

\* the AddressNumber the number-token t stands for: the value of its digits
\* and, as extension, what follows them
TokenValue(t) ==
    LET d == CHOOSE a \in 1..Len(t) :
                 /\ IsDigits(Take(t, a))
                 /\ a < Len(t) => t[a + 1] \notin Digits
    IN  BrojNumber(ParseUsize(Take(t, d)),
                   IF d = Len(t) THEN None ELSE Some(Drop(t, d)))

\* after its first n characters the text goes on with '-' and a digit
RangeFollows(s, n) ==
    /\ n + 2 <= Len(s)
    /\ s[n + 1] = "-"
    /\ s[n + 2] \in Digits

\* C15: when the input begins with a number-token t that is not followed by
\* '-' and a number-token ("12,", "12-", "12-X", "12 -13"), the failed range
\* attempt consumes nothing: broj returns Single(t) and the remaining input
\* begins right after t.  broj fails only when the input begins with
\* neither the BB marker nor a digit.
C15_Backtracking ==
    fn = "broj" =>
        /\ res.ok <=> StartsLikeSpec(input)
        /\ (TokenLen(input) > 0 /\ ~RangeFollows(input, TokenLen(input))) =>
               res = Ok(Drop(input, TokenLen(input)),
                        Number(TokenValue(Take(input, TokenLen(input)))))

C15_Witness ==
    /\ fn = "broj"
    /\ input = <<"1", "2", "-", "X">>
    /\ res = Ok(<<"-", "X">>, Number(BrojNumber(12, None)))

\* C16: when a comma inside a list is followed by whitespace ("S1, S2"),
\* the List Parser returns only the items before that comma: for a list
\* text L followed by a comma, whitespace and a text that does not begin
\* with whitespace, it returns the items of L (one more than L has commas),
\* the comma is taken as the trailing comma, the whitespace as trailing
\* whitespace, and the text after the whitespace is left unconsumed.
C16_CommaThenWhitespace ==
    fn = "broj_list" =>
        \A c \in 2..(Len(input) - 1) :
            (/\ input[c] = ","
             /\ IsListText(Take(input, c - 1))
             /\ input[c + 1] \in MultiSpace) =>
                LET w == PrefixLen(Drop(input, c), MultiSpace)
                IN  /\ res.ok
                    /\ res.rest = Drop(input, c + w)
                    /\ res.out = broj_list(Take(input, c - 1)).out
                    /\ Len(res.out) = Commas(Take(input, c - 1)) + 1

C16_Witness ==
    /\ fn = "broj_list"
    /\ input = <<"1", ",", " ", "2", "A">>
    /\ res = Ok(<<"2", "A">>, <<Number(BrojNumber(1, None))>>)

\* C17: the '/' belongs to the extension only when at least one digit
\* follows it.  On digits, letters and a '/' that no digit follows ("36A/",
\* "36/B") the Number-Token Parser succeeds, the extension is the letters
\* alone (absent when there is none) and the '/' is left unconsumed.
C17_SlashNeedsDigit ==
    fn = "address_number" =>
        LET a == PrefixLen(input, Digits)
            b == PrefixLen(Drop(input, a), Alpha)
        IN  (/\ a >= 1
             /\ a + b < Len(input)
             /\ input[a + b + 1] = "/"
             /\ a + b + 1 < Len(input) => input[a + b + 2] \notin Digits) =>
                res = Ok(Drop(input, a + b),
                         BrojNumber(ParseUsize(Take(input, a)),
                                    IF b = 0 THEN None
                                    ELSE Some(SubSeq(input, a + 1, a + b))))

C17_Witness ==
    /\ fn = "address_number"
    /\ input = <<"2", "A", "/", "B", "B">>
    /\ res = Ok(<<"/", "B", "B">>, BrojNumber(2, Some(<<"A">>)))

\* the number of ':' characters of a text
Colons(s) == Cardinality({k \in 1..Len(s) : s[k] = ":"})

\* C18: the Row Parser terminates on every finite input.  Each successful
\* application of the Street-Entry Parser consumes at least one character, a
\* ':' among them; the remaining input is at every step a suffix of what it
\* was; every step of the loop ends the parse (with an error or a row) or
\* shortens the remaining input, so that a line of n characters is parsed
\* in at most n + 1 steps; the number of entries never exceeds the number
\* of ':' characters of the line.
C18_Terminates ==
    /\ [][Len(acc') > Len(acc) =>
              \E n \in 1..Len(rest) :
                  /\ rest' = Drop(rest, n)
                  /\ Colons(Take(rest, n)) >= 1]_vars
    /\ [][\E n \in 0..Len(rest) : rest' = Drop(rest, n)]_vars
    /\ [][(pc \in {"start", "loop"}) =>
              (pc' \in {"err", "parsed"} \/ Len(rest') < Len(rest))]_vars
    /\ [](Len(acc) + Colons(rest) <= Colons(input))
    /\ [](pc \in Finished => Len(items) <= Colons(input))

C18_Witness ==
    /\ pc = "parsed"
    /\ input = <<"C", ":", "3", "\n", "A", ":", "B", "B", ",">>
    /\ Len(items) = 2
    /\ rest = <<>>

=========================================================================
